---- MODULE Spec2Model ----
(***************************************************************************)
(* Request-resilience and orchestration layer of the Replicate client:     *)
(* withAutomaticRetries and transformFileInputs (lib/util.js),             *)
(* Replicate.request, Replicate.wait, Replicate.run, Replicate.stream and  *)
(* Replicate.paginate (lib/replicate.js).                                  *)
(*                                                                         *)
(* One behaviour is one call of one public operation: Init picks the       *)
(* operation and its arguments, the actions are the steps of that call    *)
(* between two suspension points (await).                                  *)
(*                                                                         *)
(* JavaScript numbers are fixed-point: a number x is the integer x * Scale *)
(* (field v), NaN is a separate flag.  An optional argument is a set: {}   *)
(* when it is undefined, {x} when it is x.                                 *)
(***************************************************************************)
EXTENDS Integers, Sequences, FiniteSets, TLC

VARIABLES
    op,            \* the operation this call is: "retries", "request", "wait", "run",
                   \* "stream", "paginate", "transform"
    options,       \* withAutomaticRetries: the options argument
    method,        \* request: options.method ("none" outside request)
    attempts,      \* withAutomaticRetries: let attempts
    delay,         \* withAutomaticRetries: let delay (of the current iteration)
    rpc,           \* withAutomaticRetries: position in the function
    calls,         \* number of times request() was invoked by withAutomaticRetries
    last,          \* outcome of the latest invocation of request()
    waits,         \* per finished loop iteration: the timer the iteration waited on
    onlyRetryable, \* every outcome so far was a response that shouldRetry accepts
    directiveSeen, \* some attempt so far threw an error carrying a Retry-After value
    result,        \* withAutomaticRetries: the response returned or the error thrown
    reqResult,     \* Replicate.request: how the call ended
    prediction,    \* wait: the prediction argument; run: let prediction
    waitInterval,  \* wait: options.interval
    stop,          \* wait: the stop argument: "none", "user" (a caller's predicate), "run" (the closure of run)
    updated,       \* wait: let updatedPrediction
    wpc,           \* wait: position in the function
    fetches,       \* number of predictions.get requests issued
    sleeps,        \* wait: the durations of the sleeps started, in order
    stopCalls,     \* number of invocations of the stop predicate
    stopArg,       \* the record the latest invocation of the stop predicate was passed
    stopLast,      \* what the latest invocation of the stop predicate settled with ("none" before)
    wresult,       \* wait: the record returned
    werror,        \* wait: the error thrown
    runpc,         \* run: position in the function
    ident,         \* run: what the reference was parsed to ("none" before the call)
    signal,        \* run: options.signal: "absent", "idle", "aborted"
    progress,      \* run: a progress callback was passed
    progressLog,   \* run: the rev of the record of each progress invocation
    creates,       \* number of predictions.create requests issued
    cancels,       \* number of predictions.cancel requests issued
    runResult,     \* run: how the call ended
    spc,           \* stream: position in the generator
    createStream,  \* stream: data.stream of the predictions.create request issued ("unset" before)
    surls,         \* stream: prediction.urls of the created record ("none" before)
    feeds,         \* stream: number of Stream objects constructed
    events,        \* stream: number of events yielded to the consumer
    serror,        \* stream: the error thrown ("none" when none)
    ppc,           \* paginate: position in the generator
    chainLen,      \* paginate: number of pages of the listing
    pfetched,      \* paginate: the page requests issued, in order
    yielded,       \* paginate: the batches yielded to the consumer, in order
    pulls,         \* paginate: number of times the consumer asked for the next batch
    tpc,           \* transformFileInputs: position in the function
    tinput,        \* transformFileInputs: the inputs argument
    toutcome       \* transformFileInputs: how the call ended

retryVars == <<options, method, attempts, delay, rpc, calls, last, waits,
               onlyRetryable, directiveSeen, result, reqResult>>

waitVars == <<prediction, waitInterval, stop, updated, wpc, fetches, sleeps, stopCalls,
              stopArg, stopLast, wresult, werror>>

runVars == <<runpc, ident, signal, progress, progressLog, creates, cancels, runResult>>

streamVars == <<spc, createStream, surls, feeds, events, serror>>

pageVars == <<ppc, chainLen, pfetched, yielded, pulls>>

transformVars == <<tpc, tinput, toutcome>>

extraVars == <<streamVars, pageVars, transformVars>>

vars == <<op, retryVars, waitVars, runVars, extraVars>>

----------------------------------------------------------------------------
(* Bounds of the model *)

\* largest value of options.maxRetries a caller configures
MaxRetriesOpt == 2

\* number of predictions.get requests of one wait the counters distinguish
MaxFetches == 3

\* number of events of one feed the counter distinguishes
MaxEvents == 2

\* largest number of pages of a listing
MaxPages == 3

\* largest nesting of arrays and objects in an input of transformFileInputs
MaxDepth == 2

\* largest number of elements of one array or object of such an input
MaxWidth == 2

(* Program constants *)

DefaultMaxRetries == 5
DefaultInterval == 500
DefaultJitter == 100
MAX_DATA_URI_SIZE == 10000000

----------------------------------------------------------------------------
(* JavaScript numbers *)

\* unit of the fixed-point representation: 2 ** DefaultMaxRetries, the
\* largest divisor line 61 can apply to the interval
Scale == 2 ^ DefaultMaxRetries

Num(x) == [nan |-> FALSE, v |-> x * Scale]
NaN == [nan |-> TRUE, v |-> 0]

\* Number.isInteger
IsInteger(x) == ~x.nan /\ x.v % Scale = 0

\* x > 0 (false for NaN)
IsPositive(x) == ~x.nan /\ x.v > 0

\* a || d for an optional number a: undefined and 0 are falsy
OrDefault(a, d) == IF a = {} \/ a = {0} THEN d ELSE CHOOSE x \in a : TRUE

\* Math.random() yields r / Scale for r in this set
RandomNumerators == {0, 8, 13, 31}

----------------------------------------------------------------------------
(* Outcomes of one invocation of the wrapped request function *)

Statuses == {200, 404, 429, 499, 500, 503}

\* What error.response.headers.get("Retry-After") returns:
\*   absent  - null
\*   number  - a Number of seconds (a Headers object that does not stringify)
\*   seconds - a string of decimal digits, val seconds
\*   date    - an HTTP date string, val ms after the time of the catch
\*   garbage - a string that is neither
RetryAfterValues ==
    {[form |-> "absent", val |-> 0],
     [form |-> "number", val |-> 2],
     [form |-> "seconds", val |-> 2],
     [form |-> "date", val |-> 3000],
     [form |-> "date", val |-> -1000],
     [form |-> "garbage", val |-> 0]}

NoRetryAfter == [form |-> "absent", val |-> 0]

Responses == {[kind |-> "response", status |-> s, retryAfter |-> NoRetryAfter] : s \in Statuses}
ApiErrors == {[kind |-> "ApiError", status |-> 0, retryAfter |-> ra] : ra \in RetryAfterValues}
OtherErrors == {[kind |-> "TypeError", status |-> 0, retryAfter |-> NoRetryAfter]}
Outcomes == Responses \cup ApiErrors \cup OtherErrors

NoOutcome == [kind |-> "none", status |-> 0, retryAfter |-> NoRetryAfter]

\* Response.ok
Ok(status) == status >= 200 /\ status <= 299

----------------------------------------------------------------------------
(* withAutomaticRetries *)

\* options.maxRetries a caller may pass: undefined, or an integer
OptMaxRetries == {{}} \cup {{m} : m \in -1 .. MaxRetriesOpt}

\* faulty variant of ShouldRetry: the default predicate is () => true
ShouldRetryByDefault(pred, status) ==
    IF pred = {"idempotent"} THEN status = 429 \/ status >= 500
    ELSE IF pred = {"other"} THEN status = 429
    ELSE TRUE

\* the retry predicates: {} is the default of line 23, () => false;
\* "idempotent" and "other" are the two predicates Replicate.request builds
ShouldRetry(pred, status) ==
    IF pred = {"idempotent"} THEN status = 429 \/ status >= 500
    ELSE IF pred = {"other"} THEN status = 429
    ELSE FALSE

\* faulty variant of RequestShouldRetry: the method is not looked at
RequestShouldRetryAnyMethod(m) == {"idempotent"}

\* the predicate Replicate.request passes for a method
RequestShouldRetry(m) == IF m = "GET" THEN {"idempotent"} ELSE {"other"}

MaxRetriesOf(opts) == OrDefault(opts.maxRetries, DefaultMaxRetries)
IntervalOf(opts) == OrDefault(opts.interval, DefaultInterval)
JitterOf(opts) == OrDefault(opts.jitter, DefaultJitter)

\* line 33: interval * 2 ** attempts + Math.random() * jitter, Math.random() = r / Scale
ProvisionalDelay(interval, n, r, jitter) ==
    [nan |-> FALSE, v |-> interval * (2 ^ n) * Scale + r * jitter]

\* new Date(retryAfter): the results it can have, as date.getTime() - now.
\* A string that is no date format of the language is parsed by
\* implementation-specific heuristics: a string of digits is either no date
\* or a calendar date read from the digits, long past.
DateParse(ra) ==
    IF ra.form = "date" THEN {[valid |-> TRUE, diff |-> ra.val]}
    ELSE IF ra.form = "seconds"
         THEN {[valid |-> FALSE, diff |-> 0], [valid |-> TRUE, diff |-> 0 - 1000 * 1000]}
         ELSE {[valid |-> FALSE, diff |-> 0]}

\* a Retry-After value is truthy: not null, not 0, not the empty string
Truthy(ra) == ra.form # "absent" /\ ~(ra.form = "number" /\ ra.val = 0)

\* lines 41-57: the delay after the attempt threw error o
DelayAfterError(provisional, o, parsed) ==
    IF o.kind = "ApiError" /\ Truthy(o.retryAfter)
    THEN IF o.retryAfter.form # "number"
         THEN \* !Number.isInteger(retryAfter): every string
              IF parsed.valid THEN Num(parsed.diff) ELSE provisional
         ELSE Num(o.retryAfter.val * 1000)
    ELSE provisional

\* line 61: interval * 2 ** (options.maxRetries - maxRetries)
SleepMs(opts) ==
    IF opts.maxRetries = {} THEN NaN
    ELSE LET e == (CHOOSE x \in opts.maxRetries : TRUE) - MaxRetriesOf(opts)
         IN IF e >= 0
            THEN [nan |-> FALSE, v |-> IntervalOf(opts) * (2 ^ e) * Scale]
            ELSE [nan |-> FALSE, v |-> (IntervalOf(opts) * Scale) \div (2 ^ (0 - e))]

\* line 59
CountsAttempts(maxRetries) == maxRetries > 0

\* line 60
Sleeps(d) == IsInteger(d) /\ IsPositive(d)

\* faulty variant of LoopAgain: the loop test off by one
LoopAgainInclusive(n, maxRetries) == n <= maxRetries

\* line 66
LoopAgain(n, maxRetries) == n < maxRetries

NoWait == [slept |-> FALSE, ms |-> Num(0)]
Slept(ms) == [slept |-> TRUE, ms |-> ms]

\* line 29, setTimeout(resolve, ms) of Node: a duration that is NaN or less
\* than 1 is set to 1
TimerMs(ms) == IF ms.nan \/ ms.v < Scale THEN Num(1) ELSE ms

\* the time an iteration waited before the next attempt, in units of 1 / Scale ms
WaitedFor(w) == IF w.slept THEN TimerMs(w.ms).v ELSE 0

\* faulty variant of Caught: only an ApiError is caught
CaughtWhenApiError(o) == o.kind = "ApiError"

\* line 41, catch (error): whatever the attempt threw is caught
Caught(o) == TRUE

\* lines 33-57, one iteration of the loop up to the end of try/catch
RetryAttempt ==
    /\ rpc = "attempt"
    /\ \E r \in RandomNumerators, o \in Outcomes :
         LET provisional == ProvisionalDelay(IntervalOf(options), attempts, r, JitterOf(options))
         IN /\ calls' = calls + 1
            /\ last' = o
            /\ onlyRetryable' = (onlyRetryable /\ o.kind = "response"
                                   /\ ShouldRetry(options.shouldRetry, o.status))
            /\ directiveSeen' = (directiveSeen \/ o.retryAfter.form # "absent")
            /\ IF o.kind = "response"
               THEN IF Ok(o.status) \/ ~ShouldRetry(options.shouldRetry, o.status)
                    THEN /\ rpc' = "returned"
                         /\ result' = o
                         /\ delay' = provisional
                    ELSE /\ rpc' = "backoff"
                         /\ delay' = provisional
                         /\ UNCHANGED result
               ELSE IF Caught(o)
                    THEN \E parsed \in DateParse(o.retryAfter) :
                              /\ rpc' = "backoff"
                              /\ delay' = DelayAfterError(provisional, o, parsed)
                              /\ UNCHANGED result
                    ELSE /\ rpc' = "threw"
                         /\ result' = o
                         /\ delay' = provisional
    /\ UNCHANGED <<op, extraVars, options, method, attempts, waits, reqResult, waitVars, runVars>>

\* lines 59-66, the end of the iteration
RetryBackoff ==
    /\ rpc = "backoff"
    /\ LET maxRetries == MaxRetriesOf(options)
           n == IF CountsAttempts(maxRetries) THEN attempts + 1 ELSE attempts
       IN /\ waits' = Append(waits,
                        IF CountsAttempts(maxRetries) /\ Sleeps(delay)
                        THEN Slept(SleepMs(options)) ELSE NoWait)
          /\ attempts' = n
          /\ rpc' = IF LoopAgain(n, maxRetries) THEN "attempt" ELSE "final"
    /\ UNCHANGED <<op, extraVars, options, method, delay, calls, last, onlyRetryable, directiveSeen,
                   result, reqResult, waitVars, runVars>>

\* line 68, return request()
RetryFinal ==
    /\ rpc = "final"
    /\ \E o \in Outcomes :
         /\ calls' = calls + 1
         /\ last' = o
         /\ onlyRetryable' = (onlyRetryable /\ o.kind = "response"
                                /\ ShouldRetry(options.shouldRetry, o.status))
         /\ directiveSeen' = (directiveSeen \/ o.retryAfter.form # "absent")
         /\ result' = o
         /\ rpc' = IF o.kind = "response" THEN "returned" ELSE "threw"
    /\ UNCHANGED <<op, extraVars, options, method, attempts, delay, waits, reqResult, waitVars, runVars>>

----------------------------------------------------------------------------
(* Replicate.request *)

Methods == {"GET", "POST", "DELETE"}

\* lines 256-270, after withAutomaticRetries has settled
RequestEnd(res, how) ==
    IF how = "threw" THEN "rethrown"
    ELSE IF ~Ok(res.status) THEN "ApiError" ELSE "returned"

RequestFinish ==
    /\ op = "request"
    /\ reqResult = "pending"
    /\ rpc \in {"returned", "threw"}
    /\ reqResult' = RequestEnd(result, rpc)
    /\ UNCHANGED <<op, extraVars, options, method, attempts, delay, rpc, calls, last, waits,
                   onlyRetryable, directiveSeen, result, waitVars, runVars>>

----------------------------------------------------------------------------
(* Replicate.wait *)

JobStatuses == {"starting", "processing", "succeeded", "failed", "canceled"}

\* faulty variant of IsTerminal: canceled is forgotten
IsTerminalWithoutCanceled(status) == status \in {"succeeded", "failed"}

\* lines 361-365 and 376-380
IsTerminal(status) == status \in {"succeeded", "failed", "canceled"}

ErrorPayloads == {"boom", "oom"}

\* A job record.  id: the record has an id; rev: 0 for the record the caller
\* holds at the start, n for the record the n-th predictions.get resolved with,
\* -1 for none.
Rec(id, status, error, rev) == [id |-> id, status |-> status, error |-> error, rev |-> rev]
NoRecord == Rec(FALSE, "none", "null", -1)

\* the records the service can answer with
ServedRecords(rev) ==
    {Rec(TRUE, st, e, rev) : st \in JobStatuses \ {"failed"}, e \in {"null"}}
    \cup {Rec(TRUE, "failed", e, rev) : e \in ErrorPayloads}

NoError == [kind |-> "none", payload |-> "null"]
Err(kind, payload) == [kind |-> kind, payload |-> payload]

\* line 372: (options && options.interval) || 500
WaitIntervalOf(opt) == OrDefault(opt, DefaultInterval)

\* faulty variant of StopBreaks: the comparison is with false
StopBreaksOnFalse(v) == v = "false"

\* faulty variant of StopBreaks: any truthy value ends the polling
StopBreaksOnTruthy(v) == v \in {"true", "truthy"}

\* line 382: (await stop(updatedPrediction)) === true
StopBreaks(v) == v = "true"

\* line 382: the argument of stop, of the record p passed to wait and the
\* record u just fetched
StopArgument(p, u) == u

\* faulty variant of WaitEnd: the record passed to wait is returned
WaitEndReturnsArgument(rec) ==
    IF rec.status = "failed"
    THEN /\ wpc' = "threw"
         /\ werror' = Err("Prediction failed", rec.error)
         /\ wresult' = wresult
    ELSE /\ wpc' = "returned"
         /\ wresult' = prediction
         /\ werror' = werror

\* faulty variant of WaitEnd: a failed record is returned like any other
WaitEndNeverThrows(rec) ==
    /\ wpc' = "returned"
    /\ wresult' = rec
    /\ werror' = werror

\* lines 391-395: how wait ends with record rec after the loop
WaitEnd(rec) ==
    IF rec.status = "failed"
    THEN /\ wpc' = "threw"
         /\ werror' = Err("Prediction failed", rec.error)
         /\ wresult' = wresult
    ELSE /\ wpc' = "returned"
         /\ wresult' = rec
         /\ werror' = werror

\* line 386: await sleep(interval)
StartSleep ==
    /\ wpc' = "sleep"
    /\ sleeps' = IF Len(sleeps) < MaxFetches
                 THEN Append(sleeps, WaitIntervalOf(waitInterval)) ELSE sleeps
    /\ UNCHANGED <<wresult, werror>>

\* lines 356-374: wait called with record p, up to the first await
WaitEntry(p) ==
    IF ~p.id
    THEN /\ wpc' = "threw"
         /\ werror' = Err("Invalid prediction", "null")
         /\ UNCHANGED <<wresult, fetches>>
    ELSE IF IsTerminal(p.status)
         THEN /\ wpc' = "returned"
              /\ wresult' = p
              /\ UNCHANGED <<werror, fetches>>
         ELSE /\ wpc' = "fetch"
              /\ fetches' = 1
              /\ UNCHANGED <<wresult, werror>>

\* wait(prediction, options, stop) called by the user
WaitCall ==
    /\ op = "wait"
    /\ wpc = "entry"
    /\ WaitEntry(prediction)
    /\ UNCHANGED <<op, extraVars, retryVars, runVars, prediction, waitInterval, stop, updated, sleeps,
                   stopCalls, stopArg, stopLast>>

\* lines 172-184, the stop closure of run, up to its first await: invoked
\* with the record just fetched
RunStopInvoked ==
    /\ progressLog' = IF progress /\ Len(progressLog) <= MaxFetches
                      THEN Append(progressLog, updated'.rev) ELSE progressLog
    /\ IF signal = "aborted"
       THEN \* await this.predictions.cancel(...)
            /\ cancels' = cancels + 1
            /\ wpc' = "cancel"
            /\ UNCHANGED <<sleeps, stopLast, wresult, werror>>
       ELSE \* return false
            /\ stopLast' = "false"
            /\ IF StopBreaks("false")
               THEN WaitEnd(updated') /\ UNCHANGED sleeps
               ELSE StartSleep
            /\ UNCHANGED cancels

\* lines 374-387: predictions.get settled; the loop test and, for a
\* non-terminal record, the invocation of stop
WaitFetched ==
    /\ wpc = "fetch"
    /\ \/ \* predictions.get rejects
          /\ wpc' = "threw"
          /\ werror' = Err("transport", "null")
          /\ UNCHANGED <<updated, sleeps, stopCalls, stopArg, stopLast, wresult,
                         progressLog, cancels>>
       \/ \E rec \in ServedRecords(fetches) :
            /\ updated' = rec
            /\ IF IsTerminal(rec.status)
               THEN /\ WaitEnd(rec)
                    /\ UNCHANGED <<sleeps, stopCalls, stopArg, stopLast, progressLog, cancels>>
               ELSE IF stop = "none"
                    THEN /\ StartSleep
                         /\ UNCHANGED <<stopCalls, stopArg, stopLast, progressLog, cancels>>
                    ELSE /\ stopCalls' = IF stopCalls < MaxFetches THEN stopCalls + 1
                                         ELSE stopCalls
                         /\ stopArg' = StopArgument(prediction, rec)
                         /\ IF stop = "run"
                            THEN RunStopInvoked
                            ELSE /\ wpc' = "stop"
                                 /\ UNCHANGED <<sleeps, stopLast, wresult, werror,
                                                progressLog, cancels>>
    /\ UNCHANGED <<op, extraVars, retryVars, prediction, waitInterval, stop, fetches,
                   runpc, ident, signal, progress, creates, runResult>>

StopValues == {"true", "false", "truthy", "throws"}

\* line 382: the caller's stop predicate settled with v
WaitStopSettled ==
    /\ wpc = "stop"
    /\ \E v \in StopValues :
         /\ stopLast' = v
         /\ IF v = "throws"
            THEN /\ wpc' = "threw"
                 /\ werror' = Err("stop", "null")
                 /\ UNCHANGED <<sleeps, wresult>>
            ELSE IF StopBreaks(v)
                 THEN /\ WaitEnd(updated)
                      /\ UNCHANGED sleeps
                 ELSE StartSleep
    /\ UNCHANGED <<op, extraVars, retryVars, runVars, prediction, waitInterval, stop, updated, fetches,
                   stopCalls, stopArg>>

\* lines 179-180 and 382-383: predictions.cancel settled in the closure of run
RunCancelSettled ==
    /\ wpc = "cancel"
    /\ \/ \* predictions.cancel rejects
          /\ wpc' = "threw"
          /\ werror' = Err("transport", "null")
          /\ UNCHANGED <<wresult, sleeps, stopLast>>
       \/ \* return true
          /\ stopLast' = "true"
          /\ IF StopBreaks("true")
             THEN WaitEnd(updated) /\ UNCHANGED sleeps
             ELSE StartSleep
    /\ UNCHANGED <<op, extraVars, retryVars, runVars, prediction, waitInterval, stop, updated, fetches,
                   stopCalls, stopArg>>

\* lines 386-387: the sleep is over, the next predictions.get is issued
SleepOver(n) ==
    /\ wpc = "sleep"
    /\ wpc' = "fetch"
    /\ fetches' = n
    /\ UNCHANGED <<op, extraVars, retryVars, runVars, prediction, waitInterval, stop, updated, sleeps,
                   stopCalls, stopArg, stopLast, wresult, werror>>

WaitSlept ==
    /\ fetches < MaxFetches
    /\ SleepOver(fetches + 1)

\* the same step once the counters have reached their range
WaitSleptOn ==
    /\ fetches = MaxFetches
    /\ SleepOver(MaxFetches)

----------------------------------------------------------------------------
(* Replicate.run *)

\* what ModelVersionIdentifier.parse(ref) gives: an identifier with a version,
\* one with owner and name only, one with neither, or an exception
Identifiers == {"version", "model", "neither", "throws"}

\* faulty variant of RefResolves: an identifier with neither part passes
RefResolvesUnlessThrown(i) == i # "throws"

\* lines 148-160 and 292-305: the identifier names a version or a model
RefResolves(i) == i \in {"version", "model"}

RunError(kind, payload) == [how |-> "threw", error |-> Err(kind, payload), rev |-> -1]
RunReturn(rec) == [how |-> "returned", error |-> NoError, rev |-> rec.rev]
RunPending == [how |-> "pending", error |-> NoError, rev |-> -1]

\* lines 143-160: run called, up to the await of predictions.create
RunCall ==
    /\ op = "run"
    /\ runpc = "entry"
    /\ \E i \in Identifiers :
         /\ ident' = i
         /\ IF RefResolves(i)
            THEN /\ creates' = creates + 1
                 /\ runpc' = "create"
                 /\ UNCHANGED runResult
            ELSE /\ runpc' = "threw"
                 /\ runResult' = RunError("Invalid reference", "null")
                 /\ UNCHANGED creates
    /\ UNCHANGED <<op, extraVars, retryVars, waitVars, signal, progress, progressLog, cancels>>

\* lines 149-171 and 356-374: predictions.create settled; the progress
\* callback, then wait up to its first await
RunCreated ==
    /\ runpc = "create"
    /\ \/ \* predictions.create rejects
          /\ runpc' = "threw"
          /\ runResult' = RunError("transport", "null")
          /\ UNCHANGED <<waitVars, progressLog>>
       \/ \E rec \in ServedRecords(0) :
            /\ prediction' = rec
            /\ progressLog' = IF progress THEN Append(progressLog, rec.rev) ELSE progressLog
            /\ runpc' = "waiting"
            /\ WaitEntry(rec)
            /\ UNCHANGED <<runResult, waitInterval, stop, updated, sleeps, stopCalls,
                           stopArg, stopLast>>
    /\ UNCHANGED <<op, extraVars, retryVars, ident, signal, progress, creates, cancels>>

\* lines 169-196: wait settled
RunFinish ==
    /\ runpc = "waiting"
    /\ wpc \in {"returned", "threw"}
    /\ IF wpc = "threw"
       THEN /\ runpc' = "threw"
            /\ runResult' = [how |-> "threw", error |-> werror, rev |-> -1]
            /\ UNCHANGED <<prediction, progressLog>>
       ELSE /\ prediction' = wresult
            /\ progressLog' = IF progress THEN Append(progressLog, wresult.rev)
                              ELSE progressLog
            /\ IF wresult.status = "failed"
               THEN /\ runpc' = "threw"
                    /\ runResult' = RunError("Prediction failed", wresult.error)
               ELSE /\ runpc' = "returned"
                    /\ runResult' = RunReturn(wresult)
    /\ UNCHANGED <<op, extraVars, retryVars, waitInterval, stop, updated, wpc, fetches, sleeps, stopCalls,
                   stopArg, stopLast, wresult, werror, ident, signal, progress, creates,
                   cancels>>

\* the caller aborts the signal it passed to run
Abort ==
    /\ op = "run"
    /\ signal = "idle"
    /\ runpc \in {"entry", "create", "waiting"}
    /\ signal' = "aborted"
    /\ UNCHANGED <<op, extraVars, retryVars, waitVars, runpc, ident, progress, progressLog, creates,
                   cancels, runResult>>

----------------------------------------------------------------------------
(* Replicate.stream *)

\* prediction.urls of a created record: no urls object, a urls object with no
\* stream entry, a urls object with a stream reference
UrlForms == {"absent", "nostream", "stream"}

\* faulty variant of HasStreamUrl: only prediction.urls is looked at
HasStreamUrlAnyUrls(u) == u # "absent"

\* line 307: prediction.urls && prediction.urls.stream
HasStreamUrl(u) == u = "stream"

\* lines 286-305: the consumer asks for the first event; the body runs up to
\* the await of predictions.create
StreamCall ==
    /\ op = "stream"
    /\ spc = "entry"
    /\ \E i \in Identifiers :
         /\ ident' = i
         /\ IF RefResolves(i)
            THEN /\ creates' = creates + 1
                 /\ createStream' = "true"
                 /\ spc' = "create"
                 /\ UNCHANGED serror
            ELSE /\ spc' = "threw"
                 /\ serror' = "Invalid reference"
                 /\ UNCHANGED <<creates, createStream>>
    /\ UNCHANGED <<op, retryVars, waitVars, runpc, signal, progress, progressLog, cancels,
                   runResult, surls, feeds, events, pageVars, transformVars>>

\* lines 307-313: predictions.create settled
StreamCreated ==
    /\ spc = "create"
    /\ \/ \* predictions.create rejects
          /\ spc' = "threw"
          /\ serror' = "transport"
          /\ UNCHANGED <<surls, feeds>>
       \/ \E u \in UrlForms :
            /\ surls' = u
            /\ IF HasStreamUrl(u)
               THEN \* new Stream(prediction.urls.stream, { signal })
                    /\ feeds' = feeds + 1
                    /\ spc' = "feed"
                    /\ UNCHANGED serror
               ELSE /\ spc' = "threw"
                    /\ serror' = "Prediction does not support streaming"
                    /\ UNCHANGED feeds
    /\ UNCHANGED <<op, retryVars, waitVars, runVars, createStream, events, pageVars,
                   transformVars>>

\* line 310, yield* stream: what the feed produces is what the generator
\* produces: an event, the end, or an error
StreamFeed ==
    /\ spc = "feed"
    /\ \/ /\ events < MaxEvents
          /\ events' = events + 1
          /\ UNCHANGED <<spc, serror>>
       \/ /\ spc' = "ended"
          /\ UNCHANGED <<events, serror>>
       \/ /\ spc' = "threw"
          /\ serror' = "feed"
          /\ UNCHANGED events
    /\ UNCHANGED <<op, retryVars, waitVars, runVars, createStream, surls, feeds, pageVars,
                   transformVars>>

----------------------------------------------------------------------------
(* Replicate.paginate *)

\* page k of a listing of n pages: its batch of results and the reference to
\* the next page, 0 for null
PageOf(k, n) == [results |-> k, next |-> IF k < n THEN k + 1 ELSE 0]

\* faulty variant of HasNext: the next reference is not looked at
HasNextAlways(page) == TRUE

\* line 332: if (response.next)
HasNext(page) == page.next # 0

PageRequest(via, page) == [via |-> via, page |-> page]

\* lines 330 and 332-336: the consumer asks for the next batch; the generator
\* runs up to its next await, or to its end
PaginatePull ==
    /\ op = "paginate"
    /\ ppc \in {"start", "yielded"}
    /\ pulls' = pulls + 1
    /\ IF ppc = "start"
       THEN \* await endpoint()
            /\ pfetched' = <<PageRequest("endpoint", 1)>>
            /\ ppc' = "fetch"
       ELSE LET response == PageOf(pfetched[Len(pfetched)].page, chainLen)
            IN IF HasNext(response)
               THEN \* the inner generator: await nextPage()
                    /\ pfetched' = Append(pfetched, PageRequest("GET", response.next))
                    /\ ppc' = "fetch"
               ELSE /\ ppc' = "done"
                    /\ UNCHANGED pfetched
    /\ UNCHANGED <<op, retryVars, waitVars, runVars, streamVars, chainLen, yielded,
                   transformVars>>

\* lines 330-331: the page request settled; yield response.results
PaginateFetched ==
    /\ ppc = "fetch"
    /\ LET target == pfetched[Len(pfetched)].page
       IN \/ \* the request rejects
             /\ ppc' = "threw"
             /\ UNCHANGED yielded
          \/ /\ target \in 1 .. chainLen
             /\ yielded' = Append(yielded, PageOf(target, chainLen).results)
             /\ ppc' = "yielded"
    /\ UNCHANGED <<op, retryVars, waitVars, runVars, streamVars, chainLen, pfetched, pulls,
                   transformVars>>

----------------------------------------------------------------------------
(* transformFileInputs *)

\* The content of a Buffer: count bytes, each of value byte
Bytes(byte, count) == [byte |-> byte, count |-> count]

BufferNode(bytes) == [kind |-> "buffer", bytes |-> bytes]
BlobNode(type, bytes) == [kind |-> "blob", type |-> type, bytes |-> bytes]
ScalarNode(val) == [kind |-> "scalar", val |-> val]
NullNode == [kind |-> "null"]
ArrayNode(items) == [kind |-> "array", items |-> items]
ObjectNode(keys, items) == [kind |-> "object", keys |-> keys, items |-> items]
DataUri(mime, data) == [kind |-> "datauri", mime |-> mime, data |-> data]

\* the leaves of the inputs: Buffers below and above the limit, alone and in
\* sum; Blobs with and without a type; a string; null
Leaves ==
    {BufferNode(Bytes(255, 1)), BufferNode(Bytes(77, 2)),
     BufferNode(Bytes(77, 6000000)), BufferNode(Bytes(77, MAX_DATA_URI_SIZE + 1)),
     BlobNode("image/png", Bytes(77, 6000000)), BlobNode("", Bytes(255, 1)),
     ScalarNode("prompt"), NullNode}

\* the orders in which Object.keys lists the keys of an object
KeyOrders == {<<>>, <<"a">>, <<"b", "a">>}

SeqsUpTo(S, n) == UNION {[1 .. k -> S] : k \in 0 .. n}

RECURSIVE Trees(_)
Trees(depth) ==
    IF depth = 0 THEN Leaves
    ELSE LET below == Trees(depth - 1)
         IN Leaves
            \cup {ArrayNode(items) : items \in SeqsUpTo(below, MaxWidth)}
            \cup UNION {{ObjectNode(keys, items) : items \in [1 .. Len(keys) -> below]} :
                          keys \in {ko \in KeyOrders : Len(ko) <= MaxWidth}}

\* the six-bit groups of value.toString("base64") for three bytes; 64 is the
\* padding character
Sextets3(b1, b2, b3) ==
    <<b1 \div 4, (b1 % 4) * 16 + b2 \div 16, (b2 % 16) * 4 + b3 \div 64, b3 % 64>>

SextetsTail(b, n) ==
    IF n = 0 THEN <<>>
    ELSE IF n = 1 THEN <<b \div 4, (b % 4) * 16, 64, 64>>
    ELSE <<b \div 4, (b % 4) * 16 + b \div 16, (b % 16) * 4, 64>>

\* line 103, value.toString("base64"): groups times the four characters of
\* three bytes, then the characters of the bytes left over
ToBase64(bytes) ==
    [full |-> Sextets3(bytes.byte, bytes.byte, bytes.byte),
     groups |-> bytes.count \div 3,
     tail |-> SextetsTail(bytes.byte, bytes.count % 3)]

\* the result of the mapper or of transform: it threw, or the value it
\* resolved with, and totalBytes after it
Transformed(threw, value, total) == [threw |-> threw, value |-> value, total |-> total]

\* lines 80-106, the mapper passed to transform, called with totalBytes = total
Mapper(value, total) ==
    IF value.kind \notin {"buffer", "blob"}
    THEN \* line 95: return value
         Transformed(FALSE, value, total)
    ELSE LET mime == IF value.kind = "blob" THEN {value.type} ELSE {}
             \* line 98: totalBytes = 0 + value.byteLength
             totalBytes == 0 + value.bytes.count
         IN IF totalBytes > MAX_DATA_URI_SIZE
            THEN Transformed(FALSE, NullNode, totalBytes)
            ELSE Transformed(FALSE,
                             DataUri(IF mime = {} THEN "application/octet-stream"
                                     ELSE CHOOSE t \in mime : TRUE,
                                     ToBase64(value.bytes)),
                             totalBytes)

RECURSIVE Transform(_, _)
RECURSIVE TransformEntries(_, _, _, _)

\* lines 126-133: the loop over Object.keys from key number k on, copy holding
\* the values transformed so far
TransformEntries(items, k, copy, total) ==
    IF k > Len(items) THEN Transformed(FALSE, copy, total)
    ELSE LET r == Transform(items[k], total)
         IN IF r.threw THEN r
            ELSE TransformEntries(items, k + 1, Append(copy, r.value), r.total)

\* lines 118-136, transform(value, mapper) called with totalBytes = total
Transform(value, total) ==
    IF value.kind = "array"
    THEN IF value.items = <<>>
         THEN Transformed(FALSE, ArrayNode(<<>>), total)
         ELSE \* line 122: the first element is transformed, then the
              \* assignment to the const copy throws a TypeError
              Transformed(TRUE, NullNode, Transform(value.items[1], total).total)
    ELSE IF value.kind = "object"
         THEN LET r == TransformEntries(value.items, 1, <<>>, total)
              IN IF r.threw THEN r
                 ELSE Transformed(FALSE, ObjectNode(value.keys, r.value), r.total)
         ELSE Mapper(value, total)

TransformOutcome(how, tree, reported) == [how |-> how, tree |-> tree, reported |-> reported]
NoTransformOutcome == TransformOutcome("none", NullNode, 0)

\* lines 78-115
TransformFileInputsOf(inputs) ==
    LET r == Transform(inputs, 0)
    IN IF r.threw THEN TransformOutcome("TypeError", NullNode, 0)
       ELSE IF r.total > MAX_DATA_URI_SIZE
            THEN TransformOutcome("SizeError", NullNode, r.total)
            ELSE TransformOutcome("returned", r.value, 0)

\* one call of transformFileInputs, from the call to its settling
TransformFileInputs ==
    /\ op = "transform"
    /\ tpc = "entry"
    /\ toutcome' = TransformFileInputsOf(tinput)
    /\ tpc' = "done"
    /\ UNCHANGED <<op, retryVars, waitVars, runVars, streamVars, pageVars, tinput>>

----------------------------------------------------------------------------
(* The calls *)

RetryOptions ==
    [maxRetries : OptMaxRetries, interval : {{}, {200}}, jitter : {{}, {8}},
     shouldRetry : {{}, {"idempotent"}, {"other"}}]

NoOptions == [maxRetries |-> {}, interval |-> {}, jitter |-> {}, shouldRetry |-> {}]

RetryIdle ==
    /\ attempts = 0
    /\ delay = Num(0)
    /\ calls = 0
    /\ last = NoOutcome
    /\ waits = <<>>
    /\ onlyRetryable = TRUE
    /\ directiveSeen = FALSE
    /\ result = NoOutcome

WaitIdle ==
    /\ updated = NoRecord
    /\ fetches = 0
    /\ sleeps = <<>>
    /\ stopCalls = 0
    /\ stopArg = NoRecord
    /\ stopLast = "none"
    /\ wresult = NoRecord
    /\ werror = NoError

RunIdle ==
    /\ ident = "none"
    /\ progressLog = <<>>
    /\ creates = 0
    /\ cancels = 0

InitRetries ==
    /\ op = "retries"
    /\ options \in RetryOptions
    /\ method = "none"
    /\ rpc = "attempt"
    /\ reqResult = "none"
    /\ prediction = NoRecord /\ waitInterval = {} /\ stop = "none" /\ wpc = "idle"
    /\ runpc = "idle" /\ signal = "absent" /\ progress = FALSE /\ runResult = RunPending

InitRequest ==
    /\ op = "request"
    /\ method \in Methods
    /\ options = [NoOptions EXCEPT !.shouldRetry = RequestShouldRetry(method)]
    /\ rpc = "attempt"
    /\ reqResult = "pending"
    /\ prediction = NoRecord /\ waitInterval = {} /\ stop = "none" /\ wpc = "idle"
    /\ runpc = "idle" /\ signal = "absent" /\ progress = FALSE /\ runResult = RunPending

WaitIntervals == {{}, {0}, {250}}

InitWait ==
    /\ op = "wait"
    /\ options = NoOptions /\ method = "none" /\ rpc = "idle" /\ reqResult = "none"
    /\ prediction \in {Rec(id, st, e, 0) : id \in BOOLEAN, st \in JobStatuses,
                                            e \in {"null", "boom"}}
    /\ prediction.error = "boom" <=> prediction.status = "failed"
    /\ waitInterval \in WaitIntervals
    /\ stop \in {"none", "user"}
    /\ wpc = "entry"
    /\ runpc = "idle" /\ signal = "absent" /\ progress = FALSE /\ runResult = RunPending

InitRun ==
    /\ op = "run"
    /\ options = NoOptions /\ method = "none" /\ rpc = "idle" /\ reqResult = "none"
    /\ prediction = NoRecord
    /\ waitInterval \in WaitIntervals
    /\ stop = "run"
    /\ wpc = "idle"
    /\ runpc = "entry"
    /\ signal \in {"absent", "idle", "aborted"}
    /\ progress \in BOOLEAN
    /\ runResult = RunPending

\* the variables of withAutomaticRetries, wait and run in a call of another
\* operation
OthersIdle ==
    /\ options = NoOptions /\ method = "none" /\ rpc = "idle" /\ reqResult = "none"
    /\ prediction = NoRecord /\ waitInterval = {} /\ stop = "none" /\ wpc = "idle"
    /\ runpc = "idle" /\ signal = "absent" /\ progress = FALSE /\ runResult = RunPending

InitStream ==
    /\ op = "stream"
    /\ OthersIdle

InitPaginate ==
    /\ op = "paginate"
    /\ OthersIdle

StreamIdle ==
    /\ spc = IF op = "stream" THEN "entry" ELSE "idle"
    /\ createStream = "unset"
    /\ surls = "none"
    /\ feeds = 0
    /\ events = 0
    /\ serror = "none"

PageIdle ==
    /\ ppc = IF op = "paginate" THEN "start" ELSE "idle"
    /\ chainLen \in IF op = "paginate" THEN 1 .. MaxPages ELSE {0}
    /\ pfetched = <<>>
    /\ yielded = <<>>
    /\ pulls = 0

TransformIdle ==
    /\ tpc = "idle"
    /\ tinput = NullNode
    /\ toutcome = NoTransformOutcome

Init ==
    /\ InitRetries \/ InitRequest \/ InitWait \/ InitRun \/ InitStream \/ InitPaginate
    /\ RetryIdle
    /\ WaitIdle
    /\ RunIdle
    /\ StreamIdle
    /\ PageIdle
    /\ TransformIdle

Next ==
    \/ RetryAttempt
    \/ RetryBackoff
    \/ RetryFinal
    \/ RequestFinish
    \/ WaitCall
    \/ WaitFetched
    \/ WaitStopSettled
    \/ WaitSlept
    \/ RunCall
    \/ RunCreated
    \/ RunCancelSettled
    \/ RunFinish
    \/ Abort
    \/ StreamCall
    \/ StreamCreated
    \/ StreamFeed
    \/ PaginatePull
    \/ PaginateFetched

Spec == Init /\ [][Next]_vars

\* the same calls with polling that goes on beyond the range of the counters
\* and with every step that can be taken eventually taken: a response
\* arrives, a timer fires, a continuation runs
NextOn == Next \/ WaitSleptOn

FairSpec == Init /\ [][NextOn]_vars /\ WF_vars(NextOn)

InitTransform ==
    /\ op = "transform"
    /\ OthersIdle
    /\ RetryIdle
    /\ WaitIdle
    /\ RunIdle
    /\ StreamIdle
    /\ PageIdle
    /\ tpc = "entry"
    /\ tinput \in Trees(MaxDepth)
    /\ toutcome = NoTransformOutcome

TransformSpec == InitTransform /\ [][TransformFileInputs]_vars

----------------------------------------------------------------------------
(* Claims on the retry controller *)

\* the value of maxRetries the caller configured, 5 when none
Configured(opts) ==
    IF opts.maxRetries = {} THEN DefaultMaxRetries ELSE CHOOSE x \in opts.maxRetries : TRUE

Retryable(status) == status = 429 \/ status >= 500

\* C1: a GET-style call with a positive integer maxRetries (5 when not
\* configured) whose attempts all yield a retryable response makes exactly
\* maxRetries + 1 attempts, returns the response of the last one although it
\* is retryable, and request() then raises an ApiError.
C1_ExhaustedRetries ==
    (/\ options.shouldRetry = {"idempotent"}
     /\ Configured(options) > 0
     /\ onlyRetryable)
    => /\ calls <= Configured(options) + 1
       /\ rpc # "threw"
       /\ rpc = "final" => calls = Configured(options)
       /\ rpc = "returned" => /\ calls = Configured(options) + 1
                              /\ result = last
                              /\ Retryable(result.status)
       /\ (op = "request" /\ reqResult # "pending") => reqResult = "ApiError"

C1_Witness ==
    /\ op = "request"
    /\ method = "GET"
    /\ onlyRetryable
    /\ calls = DefaultMaxRetries + 1
    /\ reqResult = "ApiError"

\* C2: through request(), a response is followed by another attempt exactly
\* when its status is 429, or the method is GET and the status is 5xx; a
\* non-GET call whose first response is 5xx makes that one attempt and
\* raises an ApiError.
C2_RetryPredicate ==
    op = "request" =>
       /\ (rpc = "backoff" /\ last.kind = "response")
            => (last.status = 429 \/ (method = "GET" /\ last.status >= 500))
       /\ (rpc = "returned" /\ attempts < DefaultMaxRetries)
            => ~(last.status = 429 \/ (method = "GET" /\ last.status >= 500))
       /\ (method # "GET" /\ last.kind = "response" /\ last.status >= 500)
            => /\ rpc = "returned"
               /\ result = last
               /\ reqResult \in {"pending", "ApiError"}

C2_Witness ==
    /\ op = "request"
    /\ method = "POST"
    /\ calls = 1
    /\ last.status = 500
    /\ reqResult = "ApiError"

\* C3: for every configured maxRetries >= 0 (0 included), at most
\* maxRetries + 1 attempts are made.
C3_AtMostMaxRetriesPlusOne ==
    (options.maxRetries # {} /\ Configured(options) >= 0)
    => calls <= Configured(options) + 1

\* the delay a Retry-After value asks for, in ms
DirectiveMs(ra) == IF ra.form = "date" THEN ra.val ELSE ra.val * 1000

Parseable(ra) ==
    \/ ra.form \in {"number", "seconds"}
    \/ ra.form = "date" /\ ra.val > 0

\* C4: when an attempt threw an error with a parseable Retry-After value and
\* another attempt follows, the wait before that attempt is the value of the
\* directive.
C4_DirectiveIsTheDelay ==
    (/\ rpc \in {"attempt", "final"}
     /\ calls > 0
     /\ CountsAttempts(MaxRetriesOf(options))
     /\ last.kind = "ApiError"
     /\ Parseable(last.retryAfter))
    => waits[Len(waits)] = Slept(Num(DirectiveMs(last.retryAfter)))

\* C5: with the default interval and jitter and no Retry-After value, the
\* waits between consecutive attempts never get shorter.
C5_WaitsNonDecreasing ==
    (options.interval = {} /\ options.jitter = {} /\ ~directiveSeen)
    => \A k \in 1 .. Len(waits) - 1 : WaitedFor(waits[k]) <= WaitedFor(waits[k + 1])

\* C18: with no Retry-After value seen, when the attempt numbered k from 0
\* has failed and another attempt follows, the delay computed for it lies in
\* [interval * 2^k, interval * 2^k + jitter] and the controller has slept
\* exactly that delay before the next attempt, not sleeping only when the
\* delay is <= 0.
C18_SleepsTheComputedDelay ==
    (/\ op \in {"retries", "request"}
     /\ rpc \in {"attempt", "final"}
     /\ calls > 0
     /\ Configured(options) > 0
     /\ ~directiveSeen)
    => LET k == calls - 1
           interval == IF options.interval \in {{}, {0}} THEN DefaultInterval
                       ELSE CHOOSE x \in options.interval : TRUE
           jitter == IF options.jitter \in {{}, {0}} THEN DefaultJitter
                     ELSE CHOOSE x \in options.jitter : TRUE
       IN /\ ~delay.nan
          /\ delay.v >= interval * (2 ^ k) * Scale
          /\ delay.v <= (interval * (2 ^ k) + jitter) * Scale
          /\ waits[Len(waits)] = IF delay.v > 0 THEN [slept |-> TRUE, ms |-> delay]
                                  ELSE [slept |-> FALSE, ms |-> Num(0)]

\* what the claims call a response that ends the retrying: ok, or one the
\* retry predicate of the call does not accept
EndsRetrying(opts, o) ==
    /\ o.kind = "response"
    /\ \/ o.status \in 200 .. 299
       \/ opts.shouldRetry = {}
       \/ opts.shouldRetry = {"idempotent"} /\ ~Retryable(o.status)
       \/ opts.shouldRetry = {"other"} /\ o.status # 429

\* C19: the first attempt whose response is ok or is not accepted by
\* shouldRetry (no response is, with the default predicate) ends the call:
\* that response is returned, no sleep follows it and no attempt is made
\* after it, so the number of attempts is the position of that response.
C19_ReturnsFirstSettlingResponse ==
    /\ []((op \in {"retries", "request"} /\ calls > 0 /\ EndsRetrying(options, last))
            => /\ rpc = "returned"
               /\ result = last
               /\ Len(waits) = calls - 1)
    /\ [][rpc = "returned" => (calls' = calls /\ waits' = waits /\ result' = result)]_vars

C19_Witness ==
    /\ op = "retries"
    /\ options.shouldRetry = {"idempotent"}
    /\ calls = 3
    /\ attempts = 2
    /\ Len(waits) = 2
    /\ last.status = 404
    /\ rpc = "returned"
    /\ result = last

\* C21: an error thrown by an attempt is not passed to the caller while
\* retries remain: another attempt follows; withAutomaticRetries throws only
\* at the attempt after the last retry, and what it throws is the error of
\* that attempt as it was thrown; when an attempt returns a response that
\* ends the call, the response is the result, whatever was thrown before.
C21_ErrorsRetriedThenPropagated ==
    /\ [](op \in {"retries", "request"} =>
            /\ (last.kind \notin {"none", "response"} /\ calls <= Configured(options))
                 => (rpc \in {"backoff", "attempt", "final"}
                     /\ result.kind = "none")
            /\ rpc = "threw"
                 => /\ result = last
                    /\ result.kind \in {"ApiError", "TypeError"}
                    /\ calls > Configured(options)
                    /\ Configured(options) > 0 => calls = Configured(options) + 1
            /\ rpc = "returned"
                 => /\ result = last
                    /\ result.kind = "response")
    /\ [][(rpc = "returned" \/ rpc = "threw") => (calls' = calls /\ result' = result)]_vars

C21_Witness ==
    /\ op = "retries"
    /\ options.maxRetries = {2}
    /\ calls = 3
    /\ attempts = 2
    /\ ~onlyRetryable
    /\ last.kind = "TypeError"
    /\ rpc = "threw"
    /\ result = last

----------------------------------------------------------------------------
(* Claims on wait and run *)

Terminal(status) == status \in {"succeeded", "failed", "canceled"}

WaitEnded == wpc \in {"returned", "threw"}

\* C6: wait called with a record that has an id and a terminal status returns
\* that record, and issues no request, starts no sleep and does not invoke
\* the stop predicate.
C6_TerminalReturnsAtOnce ==
    (/\ op = "wait"
     /\ wpc # "entry"
     /\ prediction.id
     /\ Terminal(prediction.status))
    => /\ wpc = "returned"
       /\ wresult = prediction
       /\ fetches = 0
       /\ sleeps = <<>>
       /\ stopCalls = 0
       /\ cancels = 0

C6_Witness ==
    /\ op = "wait"
    /\ stop = "user"
    /\ prediction.status = "canceled"
    /\ wpc = "returned"
    /\ wresult = prediction

\* C7: in a wait on a non-terminal record that the stop predicate does not
\* end, the first fetch that resolves with a terminal record is the last
\* request, one sleep lies between two consecutive fetches, and a succeeded
\* record is the one returned.
C7_PollsUntilTerminal ==
    (/\ op = "wait"
     /\ prediction.id
     /\ ~Terminal(prediction.status))
    => /\ Terminal(updated.status)
          => /\ WaitEnded
             /\ fetches = updated.rev
             /\ Len(sleeps) = fetches - 1
       /\ updated.status = "succeeded" => (wpc = "returned" /\ wresult = updated)
       /\ wpc = "fetch" => (Len(sleeps) = fetches - 1 /\ updated.rev \in {-1, fetches - 1})
       /\ wpc = "sleep" => Len(sleeps) = fetches
       /\ wpc = "stop" => Len(sleeps) = fetches - 1
       /\ (wpc = "returned" /\ ~Terminal(wresult.status)) => stop = "user"

C7_Witness ==
    /\ op = "wait"
    /\ stop = "none"
    /\ prediction.status = "starting"
    /\ fetches = 3
    /\ Len(sleeps) = 2
    /\ updated.status = "succeeded"
    /\ wpc = "returned"
    /\ wresult.rev = 3

C9_GivesUpPolling ==
    (op = "wait" /\ prediction.id /\ stop = "none")
    => <>(Terminal(prediction.status) \/ Terminal(updated.status) \/ wpc = "threw")

\* C10: in run, a stop tick that finds the signal aborted sends one
\* cancellation request; at most one is ever sent, and after it no sleep is
\* started and no fetch is issued.
C10_CancelOnceThenStop ==
    /\ [](op = "run" =>
            /\ cancels <= 1
            /\ wpc = "cancel" => cancels = 1
            /\ cancels = 1 => /\ wpc \in {"cancel", "returned", "threw"}
                              /\ signal = "aborted"
                              /\ ~Terminal(updated.status)
                              /\ wpc = "returned" => wresult = updated)
    /\ [][op = "run" =>
            /\ (stopCalls' # stopCalls /\ signal = "aborted") => cancels' = cancels + 1
            /\ (stopCalls' # stopCalls /\ signal # "aborted") => cancels' = cancels
            /\ cancels = 1 => (fetches' = fetches /\ sleeps' = sleeps /\ cancels' = cancels)]_vars

C10_Witness ==
    /\ op = "run"
    /\ fetches = 2
    /\ stopCalls = 2
    /\ cancels = 1
    /\ Len(sleeps) = 1
    /\ runpc = "returned"
    /\ runResult = RunReturn(updated)

\* C15: a run that has submitted a job and ended, every request of which was
\* answered, has invoked progress with the created record, then with each
\* polled record that was not terminal, and last with the final record,
\* whether run returned or raised.
C15_ProgressAtEveryStage ==
    (/\ op = "run"
     /\ progress
     /\ runpc \in {"returned", "threw"}
     /\ prediction # NoRecord
     /\ werror.kind # "transport")
    => /\ Len(progressLog) = stopCalls + 2
       /\ progressLog[1] = 0
       /\ \A k \in 1 .. stopCalls : progressLog[k + 1] = k
       /\ progressLog[Len(progressLog)] = IF fetches = 0 THEN 0 ELSE updated.rev

\* C16: run with a reference that names neither a version nor a model raises
\* without having sent a request; wait with a record that has no id raises
\* 'Invalid prediction' without a fetch, a sleep or a call of stop.
C16_PreconditionsBeforeRequests ==
    /\ (op = "run" /\ ident \in {"neither", "throws"})
         => /\ runpc = "threw"
            /\ runResult.how = "threw"
            /\ creates = 0
            /\ fetches = 0
            /\ cancels = 0
            /\ progressLog = <<>>
    /\ (op = "wait" /\ wpc # "entry" /\ ~prediction.id)
         => /\ wpc = "threw"
            /\ werror = [kind |-> "Invalid prediction", payload |-> "null"]
            /\ fetches = 0
            /\ sleeps = <<>>
            /\ stopCalls = 0

C16_Witness ==
    /\ op = "run"
    /\ ident = "neither"
    /\ progress
    /\ runpc = "threw"
    /\ runResult.error.kind = "Invalid reference"
    /\ creates = 0

----------------------------------------------------------------------------
(* Claims on paginate and stream *)

\* C11: paginate yields the batches of the pages once each in the order of
\* the chain; every page request is issued when the consumer asks for the
\* next batch, one per page, the first through the endpoint passed and each
\* later one by GET on the next reference of the page before; after the page
\* whose next reference is null no request is issued.
C11_PagesInOrderOnDemand ==
    op = "paginate" =>
       /\ Len(yielded) <= chainLen
       /\ \A k \in 1 .. Len(yielded) : yielded[k] = k
       /\ Len(pfetched) = Len(yielded) + (IF ppc \in {"fetch", "threw"} THEN 1 ELSE 0)
       /\ Len(pfetched) = IF ppc = "done" THEN pulls - 1 ELSE pulls
       /\ \A k \in 1 .. Len(pfetched) :
              /\ pfetched[k].via = IF k = 1 THEN "endpoint" ELSE "GET"
              /\ pfetched[k].page = k
              /\ k <= chainLen
       /\ ppc = "done" => (Len(yielded) = chainLen /\ Len(pfetched) = chainLen)

C11_Witness ==
    /\ op = "paginate"
    /\ chainLen = 3
    /\ ppc = "done"
    /\ yielded = <<1, 2, 3>>
    /\ Len(pfetched) = 3
    /\ pulls = 4

\* C17: a stream whose created record has no stream reference yields no
\* event and throws 'Prediction does not support streaming'; a feed is
\* opened only when the record has a stream reference; either way exactly
\* one predictions.create request, with stream: true, was sent.
C17_StreamNeedsStreamUrl ==
    op = "stream" =>
       /\ surls \in {"absent", "nostream"}
            => /\ spc = "threw"
               /\ serror = "Prediction does not support streaming"
               /\ events = 0
               /\ feeds = 0
       /\ feeds > 0 => (surls = "stream" /\ feeds = 1)
       /\ events > 0 => feeds = 1
       /\ surls # "none" => (creates = 1 /\ createStream = "true")

C17_Witness ==
    /\ op = "stream"
    /\ surls = "nostream"
    /\ spc = "threw"
    /\ creates = 1
    /\ createStream = "true"
    /\ events = 0

----------------------------------------------------------------------------
(* Claims on transformFileInputs *)

Binary(node) == node.kind \in {"buffer", "blob"}

RECURSIVE AggregateBytes(_)
RECURSIVE AggregateOver(_, _)

\* the byte lengths of the binary leaves of a tree, added up
AggregateBytes(node) ==
    IF Binary(node) THEN node.bytes.count
    ELSE IF node.kind \in {"array", "object"} THEN AggregateOver(node.items, 1)
    ELSE 0

AggregateOver(items, k) ==
    IF k > Len(items) THEN 0
    ELSE AggregateBytes(items[k]) + AggregateOver(items, k + 1)

\* C12: for an input whose binary leaves add up to more than 10,000,000
\* bytes, no one of them need be that large, transformFileInputs throws
\* the size-limit error and the error reports the sum.
C12_AggregateOverLimitFails ==
    (/\ op = "transform"
     /\ tpc = "done"
     /\ toutcome.how # "TypeError"
     /\ AggregateBytes(tinput) > MAX_DATA_URI_SIZE)
    => /\ toutcome.how = "SizeError"
       /\ toutcome.reported = AggregateBytes(tinput)

\* the bytes a base64 text decodes to
FromBase64(data) ==
    LET left == IF data.tail = <<>> THEN 0 ELSE IF data.tail[3] = 64 THEN 1 ELSE 2
        first == IF data.groups > 0 THEN data.full ELSE data.tail
    IN [byte |-> first[1] * 4 + first[2] \div 16, count |-> data.groups * 3 + left]

\* the media types the claim allows in the URI of a binary leaf: the type of
\* a Blob that has one, application/octet-stream for a Buffer, either reading
\* for a Blob whose type is the empty string
MimesFor(node) ==
    IF node.kind = "buffer" THEN {"application/octet-stream"}
    ELSE IF node.type = "" THEN {"", "application/octet-stream"}
    ELSE {node.type}

RECURSIVE Mirrors(_, _)

\* out is the tree in with each binary leaf replaced by its data URI
Mirrors(in, out) ==
    IF in.kind = "array"
    THEN /\ out.kind = "array"
         /\ Len(out.items) = Len(in.items)
         /\ \A k \in 1 .. Len(in.items) : Mirrors(in.items[k], out.items[k])
    ELSE IF in.kind = "object"
         THEN /\ out.kind = "object"
              /\ out.keys = in.keys
              /\ Len(out.items) = Len(in.items)
              /\ \A k \in 1 .. Len(in.items) : Mirrors(in.items[k], out.items[k])
         ELSE IF Binary(in)
              THEN /\ out.kind = "datauri"
                   /\ out.mime \in MimesFor(in)
                   /\ FromBase64(out.data) = in.bytes
              ELSE out = in

\* C13: for an input whose binary leaves add up to at most 10,000,000 bytes,
\* transformFileInputs returns a tree of the same shape: arrays of the same
\* length with the transformed elements in place, objects with the same
\* keys, other leaves as they were, and each binary leaf as a data URI with
\* its media type (application/octet-stream by default) whose base64 text
\* decodes to the bytes of the leaf.
C13_SameShapeWithDataUris ==
    (/\ op = "transform"
     /\ tpc = "done"
     /\ AggregateBytes(tinput) <= MAX_DATA_URI_SIZE)
    => /\ toutcome.how = "returned"
       /\ Mirrors(tinput, toutcome.tree)

RECURSIVE Suppressed(_, _)

\* some binary leaf of in is null in out
Suppressed(in, out) ==
    IF in.kind \in {"array", "object"}
    THEN /\ out.kind = in.kind
         /\ \E k \in 1 .. Len(in.items) :
              k <= Len(out.items) /\ Suppressed(in.items[k], out.items[k])
    ELSE Binary(in) /\ out.kind = "null"

RECURSIVE EncodedBytes(_, _)
RECURSIVE EncodedOver(_, _, _)

\* the byte lengths of the binary leaves of in that are data URIs in out,
\* added up
EncodedBytes(in, out) ==
    IF in.kind \in {"array", "object"}
    THEN IF out.kind = in.kind THEN EncodedOver(in.items, out.items, 1) ELSE 0
    ELSE IF Binary(in) /\ out.kind = "datauri" THEN in.bytes.count ELSE 0

EncodedOver(ins, outs, k) ==
    IF k > Len(ins) \/ k > Len(outs) THEN 0
    ELSE EncodedBytes(ins[k], outs[k]) + EncodedOver(ins, outs, k + 1)

\* C14: a tree that transformFileInputs returns has no null in the place of
\* a binary leaf of the input, and the binary leaves it encoded add up to at
\* most 10,000,000 bytes.
C14_NoSuppressedLeafReturned ==
    (/\ op = "transform"
     /\ tpc = "done"
     /\ toutcome.how = "returned")
    => /\ ~Suppressed(tinput, toutcome.tree)
       /\ EncodedBytes(tinput, toutcome.tree) <= MAX_DATA_URI_SIZE

====
